---- MODULE Spec2Model ----
(***************************************************************************)
(* channel-rpc (src/src/index.ts): JSON-RPC over postMessage.              *)
(*                                                                         *)
(* One ChannelServer (in window winS), one ChannelClient (in window winC,  *)
(* target = winS) and one foreign window winP ("peer"), which stands for   *)
(* every other script that can post to the two windows or that holds a     *)
(* port end.  Every action is one task of the browser's event loop: the    *)
(* callback together with the microtasks it queues (promise reactions,     *)
(* the continuation of an await on a settled promise).                     *)
(*                                                                         *)
(* Spec is the system of the three windows.  DeferSpec takes one Deferred  *)
(* on its own and CodecSpec one payload and the classification predicates. *)
(***************************************************************************)
EXTENDS Integers, Sequences, FiniteSets, TLC

VARIABLES
    server,      \* the ChannelServer instance: #channelId, #channel, construction status
    client,      \* the ChannelClient instance: channelId, #timeout, #deferredPort, interval, listeners
    calls,       \* the stub calls in the order they were issued, each with its promise
    deferreds,   \* keys of ChannelClient.#deferreds
    winS,        \* message events queued for window winS (the server's source, the client's target)
    winC,        \* message events queued for window winC (the client's globalThis)
    toServerEnd, \* per port: messages posted on it, queued for the entangled end (port1 / the peer)
    toClientEnd, \* per port: messages posted by the entangled end, queued for the port
    peer,        \* the foreign window: what it holds and how much it has posted
    srvSent,     \* history: responses the server has posted on port1
    cliSeen,     \* history: what #portMessageHandler was called with: the message's id and
                 \* shape, whether the id was in #deferreds then, and the size of #deferreds
    hsAnswered,  \* history: handshake-request events the server answered with its port
    hsIgnored,   \* history: events the server's listener let pass without an answer
    errs,        \* history: source lines at which a callback threw and nothing caught it
    deferred,    \* a Deferred taken on its own: what defer(timeout) returned
    events,      \* what has been applied to it: resolve(v), reject(v), the timer's callback
    payload,     \* a message payload taken on its own
    verdict      \* how each side has classified it

mainVars == <<server, client, calls, deferreds, winS, winC, toServerEnd, toClientEnd,
              peer, srvSent, cliSeen, hsAnswered, hsIgnored, errs>>

unitVars == <<deferred, events, payload, verdict>>

vars == <<server, client, calls, deferreds, winS, winC, toServerEnd, toClientEnd,
          peer, srvSent, cliSeen, hsAnswered, hsIgnored, errs,
          deferred, events, payload, verdict>>

----------------------------------------------------------------------------
\* Bounds of the model.
MaxCalls == 2
MaxWin == 2
MaxPeerMsgs == 2
MaxPeerWin == 1
MaxEvents == 3

\* JavaScript values: an absent property / undefined is Undef, a present one Some(v).
Undef == <<>>
Some(x) == <<x>>
JsNull == "null"

HandShakeRequest == "@channel-rpc/HANDSHAKE_REQUEST"
HandShakeResponse == "@channel-rpc/HANDSHAKE_RESPONSE"

InvalidRequestCode == -32600
MethodNotFoundCode == -32601
InternalErrorCode == -32603
DefaultTimeout == 1000

ChannelIds == {"A", "B"}
GoodOrigin == "https://yourwebsite.com"
PeerOrigin == "https://evil.example"
Ports == {"port2", "peerPort"}

\* Identifiers as generateUUID produces them: the n-th one generated.  Four times
\* 53 random bits: two calls of one client never get the same identifier.
UUIDs == <<"u1", "u2", "u3", "u4">>
BogusId == "zz"

----------------------------------------------------------------------------
\* Payloads carried by a port.  t is "null" (null or undefined: reading a property
\* throws), "prim" (any other non-object: every property reads undefined) or "obj".
Payload(t, jsonrpc, method, params, result, error, id) ==
    [t |-> t, jsonrpc |-> jsonrpc, method |-> method, params |-> params,
     result |-> result, error |-> error, id |-> id]

PNull == Payload("null", Undef, Undef, Undef, Undef, Undef, Undef)
PPrim == Payload("prim", Undef, Undef, Undef, Undef, Undef, Undef)

JsonRpcRequest(method, params, id) ==
    Payload("obj", Some("2.0"), Some(method), Some(params), Undef, Undef, Some(id))

JsonRpcSuccessResponse(result, id) ==
    Payload("obj", Some("2.0"), Undef, Undef, Some(result), Undef, id)

JsonRpcErrorResponse(code, message, data, id) ==
    Payload("obj", Some("2.0"), Undef, Undef, Undef,
            Some([code |-> code, message |-> message, data |-> data]), id)

isJsonRpcRequest(data) ==
    data.t = "obj" /\ data.jsonrpc = Some("2.0") /\ data.method # Undef

isJsonRpcSuccessResponse(data) ==
    data.t = "obj" /\ data.jsonrpc = Some("2.0") /\ data.result # Undef

isJsonRpcErrorResponse(data) ==
    data.t = "obj" /\ data.jsonrpc = Some("2.0") /\ data.error # Undef

generateUUID(cs) ==
    UUIDs[1 + Cardinality({j \in 1..Len(cs) : cs[j].id # ""})]

----------------------------------------------------------------------------
\* Deferred<T>: the promise's state, its value or reason, the timer t, and whether
\* the members resolve and reject are the functions assigned inside the executor
\* (wired) or still the empty functions of the object literal.
NoDeferred == [st |-> "none", val |-> Undef, timer |-> "none", wired |-> FALSE]

TimeoutError == [k |-> "Error", code |-> 0, message |-> "timeout", data |-> Undef]

\* What the executor throws at line 65: a ReferenceError where `const` is kept (the
\* binding is read before it is initialized), a TypeError where it is compiled to
\* `var` (the variable still holds undefined).  One value stands for both.
ExecutorError == [k |-> "Error", code |-> 0, message |-> "deferred", data |-> Undef]

clearTimeout(timer) == IF timer = "armed" THEN "cleared" ELSE timer

\* resolve / reject of a promise: the first settlement wins, later ones do nothing.
Settle(d, st, v) ==
    IF d.st = "pending" THEN [d EXCEPT !.st = st, !.val = Some(v)] ELSE d

\* Whether the binding `deferred` can be read at the given line.  new Promise calls
\* its executor at once, inside the initializer of `const deferred`: lines 65 and 69
\* run before the declaration has completed.
DeferredInitialized(line) == line > 75

\* defer(timeout): the executor arms the timer (lines 59-63), then throws at line
\* 65, and the Promise constructor rejects the promise with what was thrown.
defer(timeout) ==
    LET armed == [st |-> "pending", val |-> Undef,
                  timer |-> IF timeout # 0 THEN "armed" ELSE "none", wired |-> FALSE]
    IN  IF DeferredInitialized(65)
        THEN [armed EXCEPT !.wired = TRUE]
        ELSE Settle(armed, "rejected", ExecutorError)

\* deferred.resolve(value): lines 65-68 when wired, the empty function otherwise.
DeferredResolve(d, value) ==
    IF d.wired
    THEN Settle([d EXCEPT !.timer = clearTimeout(d.timer)], "resolved", value)
    ELSE d

\* deferred.reject(reason): lines 69-72 when wired, the empty function otherwise.
DeferredReject(d, reason) ==
    IF d.wired
    THEN Settle([d EXCEPT !.timer = clearTimeout(d.timer)], "rejected", reason)
    ELSE d

\* The setTimeout callback of defer: reject(new Error("timeout")).
DeferredTimerFire(d) ==
    Settle([d EXCEPT !.timer = "fired"], "rejected", TimeoutError)

\* What a call rejects with when an error response settles it: the response's error object.
RpcError(error) ==
    [k |-> "RpcError", code |-> error.code, message |-> error.message, data |-> error.data]

\* What a call resolves with.
RpcValue(result) == [k |-> "value", code |-> 0, message |-> "", data |-> Some(result)]

----------------------------------------------------------------------------
\* ChannelServer

\* The capability object of the README (add) plus a method that throws its
\* argument and a property that is no function.
HandlerObject == [add |-> "function", boom |-> "function", version |-> "string"]

\* Object.keys(h).forEach: the function-valued own properties become #handlers.
MethodTable(h) == {m \in DOMAIN h : h[m] = "function"}

\* handler(...params) of the capability object above: what it returns or throws.
Invoke(method, params) ==
    IF method = "add"
    THEN [threw |-> FALSE, v |-> params[1] + params[2]]
    ELSE [threw |-> TRUE, v |-> params[1]]

NoServer ==
    [st |-> "none", channelId |-> "", handlers |-> {}, port2 |-> "none",
     sourceOrigin |-> Undef]

\* new ChannelServer({channelId, source, handler, sourceOrigin}).  The constructor
\* destructures source, channelId and handler only: the README's sourceOrigin
\* option is kept here as passed and read by no code.
ServerConstructor(channelId, handler, sourceOrigin) ==
    IF channelId = ""
    THEN [NoServer EXCEPT !.st = "threw"]
    ELSE [st |-> "up", channelId |-> channelId, handlers |-> MethodTable(handler),
          port2 |-> "held", sourceOrigin |-> sourceOrigin]

\* ServerAccepts without the comparison of the channel id.
ServerAcceptsAnyChannel(srv, ev) ==
    /\ ev.data.t = "obj"
    /\ ev.data.type = HandShakeRequest

\* The condition of the window "message" listener.
ServerAccepts(srv, ev) ==
    /\ ev.data.t = "obj"
    /\ ev.data.type = HandShakeRequest
    /\ ev.data.channelId = srv.channelId

WinMsg(t, type, channelId, origin, source, ports) ==
    [data |-> [t |-> t, type |-> type, channelId |-> channelId],
     origin |-> origin, source |-> source, ports |-> ports]

\* port1.onmessage = this.#handleMessage stores the method unbound, and a port calls
\* its onmessage handler with `this` = the event's currentTarget: the port itself.
ServerHandlerThis == "MessagePort"

\* this.#name: a private name is readable only on an instance of the class that
\* declares it; on any other receiver the access throws a TypeError.
HasPrivate(receiver, class) == receiver = class

Threw(line) == [threw |-> line, reply |-> Undef]
Replied(res) == [threw |-> 0, reply |-> Some(res)]

\* #handleMessage called with `this` = receiver: the line whose statement throws
\* (the async function's promise rejects), or the response posted on port1.
handleMessage(receiver, handlers, data) ==
    IF ~isJsonRpcRequest(data)
    THEN IF data.t = "null"
         THEN Threw(133)
         ELSE IF ~HasPrivate(receiver, "ChannelServer")
         THEN Threw(135)
         ELSE Replied(JsonRpcErrorResponse(InvalidRequestCode, "Invalid Request", Undef,
                        IF data.id # Undef THEN data.id ELSE Some(JsNull)))
    ELSE IF ~HasPrivate(receiver, "ChannelServer")
    THEN Threw(139)
    ELSE IF data.method[1] \notin handlers
    THEN Replied(JsonRpcErrorResponse(MethodNotFoundCode, "Method not found", Undef, data.id))
    ELSE LET r == Invoke(data.method[1], IF data.params = Undef THEN <<>> ELSE data.params[1])
         IN  IF r.threw
             THEN Replied(JsonRpcErrorResponse(InternalErrorCode, "Internal error",
                                               Some(r.v), data.id))
             ELSE Replied(JsonRpcSuccessResponse(r.v, data.id))

----------------------------------------------------------------------------
\* ChannelClient

NoClient ==
    [st |-> "none", channelId |-> "", target |-> "", timeout |-> 0,
     deferredPort |-> NoDeferred, interval |-> "none", listeners |-> {},
     onmessage |-> {}]

\* this.#timeout = timeout || 1000
EffectiveTimeout(timeout) == IF timeout # 0 THEN timeout ELSE DefaultTimeout

\* ClientConstructor with the two checks made after #startHandshake.
ClientConstructorLateCheck(target, channelId, timeout) ==
    IF target = "" \/ channelId = ""
    THEN [NoClient EXCEPT !.st = "threw", !.interval = "armed", !.listeners = {"winC"}]
    ELSE [st |-> "up", channelId |-> channelId, target |-> target,
          timeout |-> EffectiveTimeout(timeout), deferredPort |-> defer(0),
          interval |-> "armed", listeners |-> {"winC"}, onmessage |-> {}]

\* new ChannelClient({target, channelId, timeout}) up to and including
\* #startHandshake: the listener is added on self (globalThis, window winC) and the
\* probe interval is armed.  target "" is a missing target.
ClientConstructor(target, channelId, timeout) ==
    IF target = "" \/ channelId = ""
    THEN [NoClient EXCEPT !.st = "threw"]
    ELSE [st |-> "up", channelId |-> channelId, target |-> target,
          timeout |-> EffectiveTimeout(timeout), deferredPort |-> defer(0),
          interval |-> "armed", listeners |-> {"winC"}, onmessage |-> {}]

\* The condition of the handshake handler.
ClientAccepts(cl, ev) ==
    /\ ev.data.t = "obj"
    /\ ev.data.type = HandShakeResponse
    /\ ev.data.channelId = cl.channelId
    /\ Len(ev.ports) # 0

clearInterval(interval) == IF interval = "armed" THEN "cleared" ELSE interval

\* HandshakeHandler without clearInterval(interval).
HandshakeHandlerNoClear(cl, ev) ==
    [cl EXCEPT !.listeners = cl.listeners \ {cl.target},
               !.deferredPort = DeferredResolve(cl.deferredPort, ev.ports[1]),
               !.onmessage = cl.onmessage \cup {ev.ports[1]}]

\* The body of the handshake handler for an accepted event: the interval is
\* cleared, the handler is removed from target (it was added on self), the port
\* future is resolved and the response handler is installed on the event's port.
HandshakeHandler(cl, ev) ==
    [cl EXCEPT !.interval = clearInterval(cl.interval),
               !.listeners = cl.listeners \ {cl.target},
               !.deferredPort = DeferredResolve(cl.deferredPort, ev.ports[1]),
               !.onmessage = cl.onmessage \cup {ev.ports[1]}]

\* A call as the stub's function is entered: no id and no deferred yet.  d is the
\* promise the call returns, with the timer of the call's deferred once #sendRequest
\* has made one; probing records whether the probe interval was still running.
NewCall(method, args, probing) ==
    [method |-> method, args |-> args, id |-> "", d |-> NoDeferred, probing |-> probing]

\* await this.#deferredPort.promise on a rejected promise: the await throws the
\* reason and the promise of #sendRequest, and so the call, rejects with it.
AwaitThrew(c, reason) ==
    [c EXCEPT !.d = [NoDeferred EXCEPT !.st = "rejected", !.val = Some(reason)]]

\* #sendRequest after the await, for call i: a fresh id and a deferred with the
\* per-call timeout.
sendRequest(cs, i, timeout) ==
    [cs EXCEPT ![i].id = generateUUID(cs), ![i].d = defer(timeout)]

\* The continuations of the calls suspended on the port future, run in the order in
\* which the calls awaited it.
RECURSIVE ResumeWaiting(_, _, _)
ResumeWaiting(cs, i, timeout) ==
    IF i > Len(cs) THEN cs
    ELSE ResumeWaiting(IF cs[i].d.st = "none" THEN sendRequest(cs, i, timeout) ELSE cs,
                       i + 1, timeout)

PortMsg(from, data) == [from |-> from, data |-> data]

RequestOf(c) == PortMsg("client", JsonRpcRequest(c.method, c.args, c.id))

RECURSIVE RequestsFrom(_, _, _)
RequestsFrom(old, new, i) ==
    IF i > Len(new) THEN <<>>
    ELSE (IF old[i].id = "" /\ new[i].id # "" THEN <<RequestOf(new[i])>> ELSE <<>>)
         \o RequestsFrom(old, new, i + 1)

\* port.onmessage = this.#portMessageHandler stores the method unbound as well.
ClientHandlerThis == "MessagePort"

NoSettle(line) == [threw |-> line, settle |-> Undef]
SettleWith(id, how, v) == [threw |-> 0, settle |-> Some([id |-> id, how |-> how, v |-> v])]

\* #portMessageHandler called with `this` = receiver and the keys of #deferreds:
\* the line whose statement throws, or the deferred it settles, or nothing.
portMessageHandler(receiver, keys, data) ==
    IF isJsonRpcSuccessResponse(data)
    THEN IF ~HasPrivate(receiver, "ChannelClient")
         THEN NoSettle(242)
         ELSE IF data.id # Undef /\ data.id[1] \in keys
         THEN SettleWith(data.id[1], "resolve", RpcValue(data.result[1]))
         ELSE NoSettle(0)
    ELSE IF isJsonRpcErrorResponse(data)
    THEN IF ~HasPrivate(receiver, "ChannelClient")
         THEN NoSettle(247)
         ELSE IF data.id # Undef /\ data.id[1] \in keys
         THEN SettleWith(data.id[1], "reject", RpcError(data.error[1]))
         ELSE NoSettle(0)
    ELSE NoSettle(0)

\* deferred.resolve / deferred.reject of the call with the given id.
ApplySettle(cs, s) ==
    [i \in 1..Len(cs) |->
        IF cs[i].id = s.id
        THEN [cs[i] EXCEPT !.d = IF s.how = "resolve"
                                  THEN DeferredResolve(cs[i].d, s.v)
                                  ELSE DeferredReject(cs[i].d, s.v)]
        ELSE cs[i]]

\* The reactions attached in #sendRequest: a settled call's id leaves #deferreds.
SettledKeys(cs) == {cs[i].id : i \in {j \in 1..Len(cs) : cs[j].d.st \in {"resolved", "rejected"}}}

----------------------------------------------------------------------------
\* Inputs

\* stub.add(2, 3), stub.boom(7) (the handler throws 7) and stub.version() (a
\* property of the capability object that is no function, so no method).
CallInputs == {<<"add", <<2, 3>>>>, <<"boom", <<7>>>>, <<"version", <<>>>>}

\* What the holder of port2 may post to port1 besides well-formed requests: null,
\* a non-object, an object with neither method nor id, a response-shaped object.
PeerRequests ==
    {PNull, PPrim,
     Payload("obj", Some("2.0"), Undef, Undef, Undef, Undef, Undef),
     JsonRpcSuccessResponse(5, Some(BogusId))}

\* The well-formed requests the holder of port2 may post: the calls of CallInputs
\* under an id of its own.
PeerId == "p1"
PeerCalls == {JsonRpcRequest(c[1], c[2], PeerId) : c \in CallInputs}

\* The identifiers the client has generated so far.
IssuedIds == {calls[i].id : i \in 1..Len(calls)} \ {""}

\* The response #handleMessage computes for a call's request when it runs on the
\* ChannelServer instance.
ResponseFor(c) ==
    handleMessage("ChannelServer", MethodTable(HandlerObject),
                  JsonRpcRequest(c.method, c.args, c.id)).reply[1]

\* What the other end of the client's port may post: the response to a request the
\* client has sent (in any order, any number of times, at any time) and a response
\* for an id the client never issued.
PeerResponses ==
    {ResponseFor(calls[i]) : i \in {j \in 1..Len(calls) : calls[j].id # ""}}
    \cup {JsonRpcSuccessResponse(5, Some(BogusId)),
          JsonRpcErrorResponse(InternalErrorCode, "Internal error", Some(7), Some(BogusId))}

\* Handshake messages of the foreign window: the channel id, and whether its port
\* comes with it.
PeerHandshakes == ChannelIds \X BOOLEAN

\* Values and reasons a deferred is settled with.
DeferValues == {RpcValue(5), RpcValue(7)}
DeferReasons == {RpcError([code |-> InternalErrorCode, message |-> "Internal error",
                           data |-> Some(7)])}

\* Payloads over the combinations of: null, another non-object, an object with the
\* tag absent, "2.0" or "1.0", and method, result, error, id each present or absent.
Payloads ==
    {PNull, PPrim} \cup
    {Payload("obj", j, m, Undef, r, e, i) :
        j \in {Undef, Some("2.0"), Some("1.0")},
        m \in {Undef, Some("add")},
        r \in {Undef, Some(5)},
        e \in {Undef, Some([code |-> InternalErrorCode, message |-> "Internal error",
                            data |-> Some(7)])},
        i \in {Undef, Some(BogusId)}}

NoVerdict == [server |-> "none", client |-> "none"]

----------------------------------------------------------------------------
MainInit ==
    /\ server = NoServer
    /\ client = NoClient
    /\ calls = <<>>
    /\ deferreds = {}
    /\ winS = <<>>
    /\ winC = <<>>
    /\ toServerEnd = [p \in Ports |-> <<>>]
    /\ toClientEnd = [p \in Ports |-> <<>>]
    /\ peer = [port2 |-> FALSE, peerPort |-> "held", n |-> 0, w |-> 0, req |-> 0]
    /\ srvSent = {}
    /\ cliSeen = {}
    /\ hsAnswered = {}
    /\ hsIgnored = {}
    /\ errs = {}

Init ==
    /\ MainInit
    /\ deferred = NoDeferred
    /\ events = <<>>
    /\ payload = PNull
    /\ verdict = NoVerdict

\* new ChannelServer(options)
ServerConstruct(channelId, sourceOrigin) ==
    /\ server.st = "none"
    /\ server' = ServerConstructor(channelId, HandlerObject, sourceOrigin)
    /\ UNCHANGED <<client, calls, deferreds, winS, winC, toServerEnd, toClientEnd,
                   peer, srvSent, cliSeen, hsAnswered, hsIgnored, errs>>
    /\ UNCHANGED unitVars

\* A message event of window winS: the server's listener, when there is one.
\* Transferring port2 a second time throws (DataCloneError: the port is detached)
\* and nothing is posted.
ServerWindowMessage ==
    /\ winS # <<>>
    /\ winS' = Tail(winS)
    /\ LET ev == Head(winS) IN
       IF server.st = "up" /\ ServerAccepts(server, ev)
       THEN IF server.port2 = "held"
            THEN /\ server' = [server EXCEPT !.port2 = "sent"]
                 /\ hsAnswered' = hsAnswered \cup {ev}
                 /\ IF ev.source = "winC"
                    THEN /\ winC' = Append(winC, WinMsg("obj", HandShakeResponse,
                                        server.channelId, GoodOrigin, "winS", <<"port2">>))
                         /\ peer' = peer
                    ELSE /\ peer' = [peer EXCEPT !.port2 = TRUE]
                         /\ winC' = winC
                 /\ UNCHANGED <<errs, hsIgnored>>
            ELSE /\ errs' = errs \cup {111}
                 /\ UNCHANGED <<server, hsAnswered, hsIgnored, winC, peer>>
       ELSE /\ hsIgnored' = IF server.st = "up" THEN hsIgnored \cup {ev} ELSE hsIgnored
            /\ UNCHANGED <<server, hsAnswered, winC, peer, errs>>
    /\ UNCHANGED <<client, calls, deferreds, toServerEnd, toClientEnd, srvSent, cliSeen>>
    /\ UNCHANGED unitVars

\* A message event of port1: #handleMessage, called as the port calls it.
ServerPortMessage ==
    /\ server.st = "up"
    /\ toServerEnd["port2"] # <<>>
    /\ LET m == Head(toServerEnd["port2"])
           r == handleMessage(ServerHandlerThis, server.handlers, m.data)
       IN  /\ toServerEnd' = [toServerEnd EXCEPT !["port2"] = Tail(@)]
           /\ errs' = IF r.threw # 0 THEN errs \cup {r.threw} ELSE errs
           /\ IF r.reply # Undef
              THEN /\ toClientEnd' = [toClientEnd EXCEPT
                                        !["port2"] = Append(@, PortMsg("server", r.reply[1]))]
                   /\ srvSent' = srvSent \cup {r.reply[1]}
              ELSE UNCHANGED <<toClientEnd, srvSent>>
    /\ UNCHANGED <<server, client, calls, deferreds, winS, winC, peer, cliSeen,
                   hsAnswered, hsIgnored>>
    /\ UNCHANGED unitVars

\* new ChannelClient(options)
ClientConstruct(target, channelId, timeout) ==
    /\ client.st = "none"
    /\ client' = ClientConstructor(target, channelId, timeout)
    /\ UNCHANGED <<server, calls, deferreds, winS, winC, toServerEnd, toClientEnd,
                   peer, srvSent, cliSeen, hsAnswered, hsIgnored, errs>>
    /\ UNCHANGED unitVars

\* The setInterval callback of #startHandshake.
ProbeTick ==
    /\ client.st = "up"
    /\ client.interval = "armed"
    /\ Len(winS) < MaxWin
    /\ winS' = Append(winS, WinMsg("obj", HandShakeRequest, client.channelId,
                                   GoodOrigin, "winC", <<>>))
    /\ UNCHANGED <<server, client, calls, deferreds, winC, toServerEnd, toClientEnd,
                   peer, srvSent, cliSeen, hsAnswered, hsIgnored, errs>>
    /\ UNCHANGED unitVars

\* StubCall with a #sendRequest that does not await the port future and posts on
\* port2 of the server's channel.
StubCallNoAwait(method, args) ==
    /\ client.st = "up"
    /\ Len(calls) < MaxCalls
    /\ LET cs == Append(calls, NewCall(method, args, client.interval = "armed"))
           i == Len(cs)
           sent == sendRequest(cs, i, client.timeout)
       IN  /\ calls' = sent
           /\ deferreds' = (deferreds \cup {sent[i].id}) \ SettledKeys(sent)
           /\ toServerEnd' = [toServerEnd EXCEPT !["port2"] = Append(@, RequestOf(sent[i]))]
    /\ UNCHANGED <<server, client, winS, winC, toClientEnd, peer, srvSent, cliSeen,
                   hsAnswered, hsIgnored, errs>>
    /\ UNCHANGED unitVars

\* StubCall with a #sendRequest that sets its entry of #deferreds before the await.
StubCallEntryFirst(method, args) ==
    /\ client.st = "up"
    /\ Len(calls) < MaxCalls
    /\ LET cs == Append(calls, NewCall(method, args, client.interval = "armed"))
           i == Len(cs)
       IN  /\ calls' = [cs EXCEPT ![i] = AwaitThrew(@, client.deferredPort.val[1])]
           /\ deferreds' = deferreds \cup {generateUUID(cs)}
    /\ UNCHANGED <<server, client, winS, winC, toServerEnd, toClientEnd, peer, srvSent,
                   cliSeen, hsAnswered, hsIgnored, errs>>
    /\ UNCHANGED unitVars

\* client.stub[method](...args): #sendRequest up to the await; the await throws
\* when the port future is rejected, suspends the call when it is pending, and
\* #sendRequest runs through to the end when it is resolved.
StubCall(method, args) ==
    /\ client.st = "up"
    /\ Len(calls) < MaxCalls
    /\ LET cs == Append(calls, NewCall(method, args, client.interval = "armed"))
           i == Len(cs)
       IN  IF client.deferredPort.st = "rejected"
           THEN /\ calls' = [cs EXCEPT ![i] = AwaitThrew(@, client.deferredPort.val[1])]
                /\ UNCHANGED <<deferreds, toServerEnd>>
           ELSE IF client.deferredPort.st = "resolved"
           THEN LET sent == sendRequest(cs, i, client.timeout)
                    port == client.deferredPort.val[1]
                IN  /\ calls' = sent
                    /\ deferreds' = (deferreds \cup {sent[i].id}) \ SettledKeys(sent)
                    /\ toServerEnd' = [toServerEnd EXCEPT
                                         ![port] = Append(@, RequestOf(sent[i]))]
           ELSE /\ calls' = cs
                /\ UNCHANGED <<deferreds, toServerEnd>>
    /\ UNCHANGED <<server, client, winS, winC, toClientEnd, peer, srvSent, cliSeen,
                   hsAnswered, hsIgnored, errs>>
    /\ UNCHANGED unitVars

\* A message event of window winC: the handshake handler, while it is registered
\* there, and then the continuations of the calls that awaited the port future.
ClientWindowMessage ==
    /\ winC # <<>>
    /\ winC' = Tail(winC)
    /\ LET ev == Head(winC) IN
       IF client.st = "up" /\ "winC" \in client.listeners /\ ClientAccepts(client, ev)
       THEN LET cl == HandshakeHandler(client, ev)
            IN  /\ client' = cl
                /\ IF client.deferredPort.st = "pending" /\ cl.deferredPort.st = "resolved"
                   THEN LET port == cl.deferredPort.val[1]
                            cs == ResumeWaiting(calls, 1, client.timeout)
                        IN  /\ calls' = cs
                            /\ deferreds' = (deferreds \cup {cs[i].id : i \in 1..Len(cs)})
                                             \ SettledKeys(cs)
                            /\ toServerEnd' = [toServerEnd EXCEPT
                                                 ![port] = @ \o RequestsFrom(calls, cs, 1)]
                   ELSE UNCHANGED <<calls, deferreds, toServerEnd>>
       ELSE UNCHANGED <<client, calls, deferreds, toServerEnd>>
    /\ UNCHANGED <<server, winS, toClientEnd, peer, srvSent, cliSeen, hsAnswered,
                   hsIgnored, errs>>
    /\ UNCHANGED unitVars

ShapeOf(data) ==
    IF isJsonRpcSuccessResponse(data) THEN "success"
    ELSE IF isJsonRpcErrorResponse(data) THEN "error" ELSE "other"

\* ClientPortMessage with a handler that posts what it received back on the port.
ClientPortMessageAnswering(p) ==
    /\ p \in client.onmessage
    /\ toClientEnd[p] # <<>>
    /\ LET m == Head(toClientEnd[p])
       IN  /\ toClientEnd' = [toClientEnd EXCEPT ![p] = Tail(@)]
           /\ toServerEnd' = [toServerEnd EXCEPT ![p] = Append(@, PortMsg("client", m.data))]
           /\ cliSeen' = cliSeen \cup
                  {[id |-> m.data.id, shape |-> ShapeOf(m.data),
                    known |-> m.data.id # Undef /\ m.data.id[1] \in deferreds,
                    inflight |-> Cardinality(deferreds)]}
    /\ UNCHANGED <<server, client, calls, deferreds, winS, winC, peer, srvSent,
                   hsAnswered, hsIgnored, errs>>
    /\ UNCHANGED unitVars

\* A message event of a port that has the response handler installed:
\* #portMessageHandler, called as the port calls it.
ClientPortMessage(p) ==
    /\ p \in client.onmessage
    /\ toClientEnd[p] # <<>>
    /\ LET m == Head(toClientEnd[p])
           r == portMessageHandler(ClientHandlerThis, deferreds, m.data)
           cs == IF r.settle # Undef THEN ApplySettle(calls, r.settle[1]) ELSE calls
       IN  /\ toClientEnd' = [toClientEnd EXCEPT ![p] = Tail(@)]
           /\ cliSeen' = cliSeen \cup
                  {[id |-> m.data.id, shape |-> ShapeOf(m.data),
                    known |-> m.data.id # Undef /\ m.data.id[1] \in deferreds,
                    inflight |-> Cardinality(deferreds)]}
           /\ errs' = IF r.threw # 0 THEN errs \cup {r.threw} ELSE errs
           /\ calls' = cs
           /\ deferreds' = deferreds \ SettledKeys(cs)
    /\ UNCHANGED <<server, client, winS, winC, toServerEnd, peer, srvSent,
                   hsAnswered, hsIgnored>>
    /\ UNCHANGED unitVars

\* The foreign window posts a handshake-request to winS.
PeerPostToServer(channelId) ==
    /\ peer.w < MaxPeerWin
    /\ Len(winS) < MaxWin
    /\ winS' = Append(winS, WinMsg("obj", HandShakeRequest, channelId, PeerOrigin,
                                   "winP", <<>>))
    /\ peer' = [peer EXCEPT !.w = @ + 1]
    /\ UNCHANGED <<server, client, calls, deferreds, winC, toServerEnd, toClientEnd,
                   srvSent, cliSeen, hsAnswered, hsIgnored, errs>>
    /\ UNCHANGED unitVars

\* The foreign window posts a handshake-response to winC, with its own port or none.
PeerPostToClient(channelId, withPort) ==
    /\ peer.w < MaxPeerWin
    /\ withPort => peer.peerPort = "held"
    /\ winC' = Append(winC, WinMsg("obj", HandShakeResponse, channelId, PeerOrigin, "winP",
                                   IF withPort THEN <<"peerPort">> ELSE <<>>))
    /\ peer' = [peer EXCEPT !.w = @ + 1,
                            !.peerPort = IF withPort THEN "sent" ELSE @]
    /\ UNCHANGED <<server, client, calls, deferreds, winS, toServerEnd, toClientEnd,
                   srvSent, cliSeen, hsAnswered, hsIgnored, errs>>
    /\ UNCHANGED unitVars

\* The foreign window posts on port2, once the server has handed it out to it.
PeerPostOnPort2(data) ==
    /\ peer.n < MaxPeerMsgs
    /\ peer.port2
    /\ toServerEnd' = [toServerEnd EXCEPT !["port2"] = Append(@, PortMsg("peer", data))]
    /\ peer' = [peer EXCEPT !.n = @ + 1,
                            !.req = IF isJsonRpcRequest(data) THEN @ + 1 ELSE @]
    /\ UNCHANGED <<server, client, calls, deferreds, winS, winC, toClientEnd,
                   srvSent, cliSeen, hsAnswered, hsIgnored, errs>>
    /\ UNCHANGED unitVars

\* The foreign window posts on the end it kept of the channel whose other end the
\* client has adopted (what it posts earlier is queued until then).
PeerPostOnPeerPort(data) ==
    /\ peer.n < MaxPeerMsgs
    /\ "peerPort" \in client.onmessage
    /\ data \in PeerResponses
    /\ toClientEnd' = [toClientEnd EXCEPT !["peerPort"] = Append(@, PortMsg("peer", data))]
    /\ peer' = [peer EXCEPT !.n = @ + 1]
    /\ UNCHANGED <<server, client, calls, deferreds, winS, winC, toServerEnd,
                   srvSent, cliSeen, hsAnswered, hsIgnored, errs>>
    /\ UNCHANGED unitVars

Next ==
    \/ \E ch \in {"", "A"} : ServerConstruct(ch, Some(GoodOrigin))
    \/ ServerWindowMessage
    \/ ServerPortMessage
    \/ \E tg \in {"", "winS"}, ch \in {""} \cup ChannelIds : ClientConstruct(tg, ch, 0)
    \/ ProbeTick
    \/ \E c \in CallInputs : StubCall(c[1], c[2])
    \/ ClientWindowMessage
    \/ \E p \in Ports : ClientPortMessage(p)
    \/ PeerPostToServer("A")
    \/ \E h \in PeerHandshakes : PeerPostToClient(h[1], h[2])
    \/ \E d \in PeerRequests \cup PeerCalls : PeerPostOnPort2(d)
    \/ \E d \in PeerResponses : PeerPostOnPeerPort(d)

Spec == Init /\ [][Next]_vars

----------------------------------------------------------------------------
\* defer on its own: a deferred is made with timeout 0 (as the port future is) or
\* with the default timeout (as a call's would be), and resolve, reject and the
\* timer's callback are applied to it in every order.

DeferInit ==
    /\ MainInit
    /\ deferred \in {defer(0), defer(DefaultTimeout)}
    /\ events = <<>>
    /\ payload = PNull
    /\ verdict = NoVerdict

Event(e, v) == [e |-> e, v |-> v]

\* deferred.resolve(value)
ResolveCalled(value) ==
    /\ Len(events) < MaxEvents
    /\ deferred' = DeferredResolve(deferred, value)
    /\ events' = Append(events, Event("resolve", value))
    /\ UNCHANGED <<mainVars, payload, verdict>>

\* deferred.reject(reason)
RejectCalled(reason) ==
    /\ Len(events) < MaxEvents
    /\ deferred' = DeferredReject(deferred, reason)
    /\ events' = Append(events, Event("reject", reason))
    /\ UNCHANGED <<mainVars, payload, verdict>>

\* The timer set at line 60 expires.
TimerExpired ==
    /\ deferred.timer = "armed"
    /\ deferred' = DeferredTimerFire(deferred)
    /\ events' = Append(events, Event("timer", TimeoutError))
    /\ UNCHANGED <<mainVars, payload, verdict>>

DeferNext ==
    \/ \E v \in DeferValues : ResolveCalled(v)
    \/ \E r \in DeferReasons : RejectCalled(r)
    \/ TimerExpired

DeferSpec == DeferInit /\ [][DeferNext]_vars

----------------------------------------------------------------------------
\* The classification predicates on their own: each side classifies a payload as
\* its port handler does.

CodecInit ==
    /\ MainInit
    /\ deferred = NoDeferred
    /\ events = <<>>
    /\ payload \in Payloads
    /\ verdict = NoVerdict

\* #handleMessage, line 126: a request, or answered as an invalid request.
ServerClassifies ==
    /\ verdict.server = "none"
    /\ verdict' = [verdict EXCEPT
                     !.server = IF isJsonRpcRequest(payload) THEN "request" ELSE "invalid"]
    /\ UNCHANGED <<mainVars, deferred, events, payload>>

\* #portMessageHandler, lines 240-252: the branch taken.
ClientClassifies ==
    /\ verdict.client = "none"
    /\ verdict' = [verdict EXCEPT !.client = ShapeOf(payload)]
    /\ UNCHANGED <<mainVars, deferred, events, payload>>

CodecNext == ServerClassifies \/ ClientClassifies

CodecSpec == CodecInit /\ [][CodecNext]_vars

----------------------------------------------------------------------------
\* Vocabulary of the properties

Established == client.deferredPort.st = "resolved"

\* The client has observed a matching handshake-response: it has installed its
\* response handler on the port that came with it.
Adopted == client.onmessage # {}

\* The port the client sends its requests on.
ClientPort == client.deferredPort.val[1]

TimedOut(i) == calls[i].d.st = "rejected" /\ calls[i].d.val = Some(TimeoutError)

\* The handshake-requests of the client among the events queued for a window.
ClientProbes(w) == Cardinality({k \in 1..Len(w) : w[k].source = "winC"})

\* The requests among the messages queued for port1.
QueuedRequests ==
    Cardinality({k \in 1..Len(toServerEnd["port2"]) :
                    isJsonRpcRequest(toServerEnd["port2"][k].data)})

\* The messages the client has posted that are queued on the other side of port p.
ClientPosts(p) ==
    Cardinality({k \in 1..Len(toServerEnd[p]) : toServerEnd[p][k].from = "client"})

----------------------------------------------------------------------------
\* C1: a call of a registered method whose handler returns, made once the handshake
\* response has been observed, never rejects unless by its timeout, and when it
\* resolves, it resolves with the handler's return value (add(2, 3) gives 5).
C1_RegisteredCallResolves ==
    \A i \in 1..Len(calls) :
        LET c == calls[i] IN
        (c.method \in MethodTable(HandlerObject) /\ ~Invoke(c.method, c.args).threw
            /\ ~c.probing)
        => /\ c.d.st = "rejected" => TimedOut(i)
           /\ c.d.st = "resolved" => c.d.val = Some(RpcValue(Invoke(c.method, c.args).v))

\* C2: a call of a name that is not in the server's method table, made once the
\* handshake response has been observed, does not resolve, and when it rejects for
\* another reason than its timeout, it rejects with code -32601.
C2_UnknownMethodRejects ==
    \A i \in 1..Len(calls) :
        LET c == calls[i] IN
        (c.method \notin MethodTable(HandlerObject) /\ ~c.probing)
        => /\ c.d.st # "resolved"
           /\ (c.d.st = "rejected" /\ ~TimedOut(i)) => c.d.val[1].code = MethodNotFoundCode

\* C3: a call whose handler throws v, made once the handshake response has been
\* observed, does not resolve, and when it rejects for another reason than its
\* timeout, it rejects with code -32603 and data v.
C3_HandlerThrowReported ==
    \A i \in 1..Len(calls) :
        LET c == calls[i] IN
        (c.method \in MethodTable(HandlerObject) /\ Invoke(c.method, c.args).threw
            /\ ~c.probing)
        => /\ c.d.st # "resolved"
           /\ (c.d.st = "rejected" /\ ~TimedOut(i))
                => /\ c.d.val[1].code = InternalErrorCode
                   /\ c.d.val[1].data = Some(Invoke(c.method, c.args).v)

\* C4: as long as no response has been delivered for a pending call, every call
\* that has settled, whatever the handshake state was when it was issued, has
\* rejected with the timeout, and its id is no key of #deferreds.
C4_EveryCallTimesOut ==
    (\A e \in cliSeen : ~e.known) =>
        \A i \in 1..Len(calls) :
            calls[i].d.st \in {"resolved", "rejected"}
            => TimedOut(i) /\ calls[i].id \notin deferreds

\* A message event of port p is dispatched in this step, carrying a response whose
\* id is not a key of #deferreds.
UnmatchedDelivery(p) ==
    /\ p \in client.onmessage
    /\ toClientEnd[p] # <<>>
    /\ toClientEnd'[p] = Tail(toClientEnd[p])
    /\ LET d == Head(toClientEnd[p]).data
       IN  /\ isJsonRpcSuccessResponse(d) \/ isJsonRpcErrorResponse(d)
           /\ d.id = Undef \/ d.id[1] \notin deferreds

\* C5: the delivery of a response whose id matches no pending call changes no
\* call, leaves #deferreds as it is and sends nothing; and a settled call keeps
\* its outcome in every step.
C5_UnmatchedResponseIgnored ==
    /\ [][\A p \in Ports : UnmatchedDelivery(p) =>
            /\ calls' = calls
            /\ deferreds' = deferreds
            /\ toServerEnd' = toServerEnd
            /\ winS' = winS /\ winC' = winC]_vars
    /\ [][\A i \in 1..Len(calls) :
            calls[i].d.st \in {"resolved", "rejected"} => calls'[i].d = calls[i].d]_vars

\* Responses of both shapes for an id that was never issued have been delivered
\* to the response handler while a call had been made.
C5_Witness ==
    /\ calls # <<>>
    /\ \E e \in cliSeen : ~e.known /\ e.shape = "success"
    /\ \E e \in cliSeen : ~e.known /\ e.shape = "error"

\* C6: with two calls made, a call that has settled otherwise than by its timeout
\* had its request sent and has the outcome of the response to that request.
C6_ConcurrentCallsCorrelated ==
    Len(calls) >= 2 =>
        \A i \in 1..Len(calls) :
            LET c == calls[i] IN
            (c.d.st \in {"resolved", "rejected"} /\ ~TimedOut(i))
            => /\ c.id # ""
               /\ \/ /\ c.d.st = "resolved"
                     /\ ResponseFor(c).result # Undef
                     /\ c.d.val = Some(RpcValue(ResponseFor(c).result[1]))
                  \/ /\ c.d.st = "rejected"
                     /\ ResponseFor(c).error # Undef
                     /\ c.d.val = Some(RpcError(ResponseFor(c).error[1]))

\* C7: the client's interval is armed exactly while it has observed no matching
\* handshake-response, its handshake-requests carry its channelId, and once it has
\* observed one, no step adds a handshake-request of the client.
C7_ProbingStopsOnceEstablished ==
    /\ [](client.st = "up" =>
            /\ (client.interval = "armed") = ~Adopted
            /\ (client.interval = "cleared") = Adopted)
    /\ [](\A k \in 1..Len(winS) :
            winS[k].source = "winC" =>
                /\ winS[k].data.type = HandShakeRequest
                /\ winS[k].data.channelId = client.channelId)
    /\ [][Adopted => ClientProbes(winS') <= ClientProbes(winS)]_vars

\* The client has observed the server's handshake-response, has since had a call
\* made, and none of its handshake-requests is left in flight.
C7_Witness ==
    /\ Adopted
    /\ ClientProbes(winS) = 0
    /\ \E ev \in hsAnswered : ev.source = "winC"
    /\ \E i \in 1..Len(calls) : ~calls[i].probing

\* C8: the server answers only handshake-requests with its own channelId and hands
\* out port2 only so; the client installs its handler on a port only on a
\* handshake-response with its own channelId; and when the two channel ids differ,
\* the client does not hold port2 and no message of it is on port2.
C8_ChannelIsolation ==
    /\ [](\A ev \in hsAnswered : ev.data.channelId = server.channelId)
    /\ [](server.port2 = "sent" => hsAnswered # {})
    /\ [][(client'.onmessage # client.onmessage \/ (~Established /\ Established'))
           => /\ winC # <<>>
              /\ Head(winC).data.type = HandShakeResponse
              /\ Head(winC).data.channelId = client.channelId]_vars
    /\ []((server.st = "up" /\ client.st = "up" /\ server.channelId # client.channelId)
           => /\ "port2" \notin client.onmessage
              /\ ClientPosts("port2") = 0)

\* The server has let a handshake-request of the client pass (another channel id),
\* and the client has adopted a port on its own channel from another window.
C8_Witness ==
    /\ server.st = "up"
    /\ client.st = "up"
    /\ server.channelId # client.channelId
    /\ \E ev \in hsIgnored : ev.source = "winC"
    /\ Adopted

\* C9: #handleMessage ends without an exception for every message that fails the
\* request classification, and a reply it sends to one is an error of code -32600
\* whose id is the payload's own id or none.
C9_MalformedMessageSurvived ==
    /\ 133 \notin errs
    /\ 135 \notin errs
    /\ \A r \in srvSent :
          (r.error # Undef /\ r.error[1].code = InvalidRequestCode)
          => r.id \in {Some(JsNull), Some(BogusId)}

\* C10: a server configured with an expected origin hands out its port only in
\* reaction to handshake-requests from that origin.
C10_OriginChecked ==
    server.sourceOrigin # Undef =>
        \A ev \in hsAnswered : ev.origin = server.sourceOrigin[1]

----------------------------------------------------------------------------
\* The event loop runs every callback that is due: the probe interval and queued
\* message events.
FairSpec ==
    /\ Spec
    /\ WF_vars(ProbeTick)
    /\ WF_vars(ServerWindowMessage)
    /\ WF_vars(ServerPortMessage)
    /\ WF_vars(ClientWindowMessage)
    /\ \A p \in Ports : WF_vars(ClientPortMessage(p))

\* C11: a client that probes with the channelId of a server that is up eventually
\* receives a handshake-response with a port and installs its handler on it.
C11_EveryPeerServed ==
    (server.st = "up" /\ client.st = "up" /\ client.channelId = server.channelId)
    ~> Adopted

\* C12: a client is up only with a target and a channelId, a server only with a
\* channelId; a client whose constructor threw has no listener, no interval, no
\* port and has posted nothing, and a server whose constructor threw has made no
\* channel and no listener of it has reacted to anything.
C12_MissingConfigurationThrows ==
    /\ client.st = "up" => (client.target # "" /\ client.channelId # "")
    /\ server.st = "up" => server.channelId # ""
    /\ client.st = "threw" =>
          /\ client.listeners = {}
          /\ client.interval = "none"
          /\ client.onmessage = {}
          /\ client.deferredPort = NoDeferred
          /\ calls = <<>>
          /\ ClientProbes(winS) = 0
          /\ \A p \in Ports : ClientPosts(p) = 0
    /\ server.st = "threw" =>
          /\ server.port2 = "none"
          /\ hsAnswered = {}
          /\ hsIgnored = {}
          /\ srvSent = {}
          /\ errs \cap {111, 133, 135, 139} = {}

\* Both constructors have thrown, and a message another window has posted since
\* has been dispatched with nothing reacting to it.
C12_Witness ==
    /\ client.st = "threw"
    /\ server.st = "threw"
    /\ peer.w > 0
    /\ winS = <<>>
    /\ winC = <<>>

\* C13: while the port future is not resolved the client has posted nothing on any
\* port, #deferreds is empty and no call has an id or a timer; what the client
\* posts to a window is a handshake-request; and once the port future is resolved
\* the client posts on no other port than the one it was resolved with.
C13_NothingSentBeforeEstablished ==
    /\ ~Established =>
          /\ \A p \in Ports : ClientPosts(p) = 0
          /\ deferreds = {}
          /\ \A i \in 1..Len(calls) : calls[i].id = "" /\ calls[i].d.timer = "none"
    /\ \A k \in 1..Len(winS) :
          winS[k].source = "winC" => winS[k].data.type = HandShakeRequest
    /\ Established => \A p \in Ports \ {ClientPort} : ClientPosts(p) = 0

\* A call was made while the client was probing, and the client has observed a
\* matching handshake-response since.
C13_Witness ==
    /\ Adopted
    /\ \E i \in 1..Len(calls) : calls[i].probing

\* C14: the response handler is installed on at most one port: the one of the first
\* matching handshake-response.
C14_HandshakeStateOnlyForward ==
    Cardinality(client.onmessage) <= 1

\* C15: the keys of #deferreds are the ids of the calls that have a pending
\* deferred, and when every call made has settled, #deferreds is empty.
C15_NoDanglingEntry ==
    /\ deferreds = {calls[i].id : i \in {j \in 1..Len(calls) : calls[j].d.st = "pending"}}
    /\ (\A i \in 1..Len(calls) : calls[i].d.st \in {"resolved", "rejected"}) => deferreds = {}

\* As many calls as the bound allows have been made, one while probing and one
\* after, and all have settled.
C15_Witness ==
    /\ Len(calls) = MaxCalls
    /\ \A i \in 1..Len(calls) : calls[i].d.st \in {"resolved", "rejected"}
    /\ \E i \in 1..Len(calls) : calls[i].probing
    /\ \E i \in 1..Len(calls) : ~calls[i].probing

\* C16: the deferred has the outcome of the first of resolve, reject and the
\* timer's callback applied to it; when that was resolve or reject the timer has not
\* fired since; and a deferred made with timeout 0 is not rejected with the timeout.
C16_FirstEventWins ==
    /\ events # <<>> =>
          /\ deferred.st = (IF Head(events).e = "resolve" THEN "resolved" ELSE "rejected")
          /\ deferred.val = Some(Head(events).v)
          /\ Head(events).e # "timer" => deferred.timer # "fired"
    /\ deferred.timer = "none" => deferred.val # Some(TimeoutError)

\* C17: each side's verdict on a payload is the one of the classification order:
\* not an object or no "2.0" tag, unrecognized; else a string method, request;
\* else a defined result, success; else a defined error, failure; else
\* unrecognized.
C17_ClassificationOrder ==
    LET class == IF payload.t # "obj" \/ payload.jsonrpc # Some("2.0") THEN "unrecognized"
                 ELSE IF payload.method # Undef THEN "request"
                 ELSE IF payload.result # Undef THEN "success"
                 ELSE IF payload.error # Undef THEN "failure"
                 ELSE "unrecognized"
    IN  /\ verdict.server # "none" => (verdict.server = "request") = (class = "request")
        /\ verdict.client # "none" =>
              /\ (verdict.client = "success") = (class = "success")
              /\ (verdict.client = "error") = (class = "failure")

\* C18: when port1 has delivered a request to #handleMessage, the server has posted
\* a reply with that request's id.
C18_OneReplyPerRequest ==
    peer.req > QueuedRequests => \E r \in srvSent : r.id = Some(PeerId)

\* C19: as long as the server has answered handshake-requests of the one client
\* only, its listener has not failed to transfer port2.
C19_PortTransferredOnce ==
    (\A ev \in hsAnswered : ev.source = "winC") => 111 \notin errs

\* C20: once the client has observed a matching handshake-response, every call
\* made while it was probing has its own id, and has not settled unless by its
\* timeout or a response.
C20_WaitingCallsSent ==
    Adopted =>
        \A i \in 1..Len(calls) :
            calls[i].probing =>
                /\ calls[i].id # ""
                /\ \A j \in 1..Len(calls) : calls[j].id = calls[i].id => j = i
                /\ calls[i].d.val # Some(ExecutorError)

====
